---- MODULE Spec2Model ----
(***************************************************************************)
(* RingBuffer of devtest/ringbuffer.pyi (Cython): a power-of-two sized     *)
(* circular byte buffer with a write cursor _head and a read cursor _tail. *)
(*                                                                         *)
(* The object's fields are the variables _size, _buf, _head, _tail.  Each  *)
(* method is one action that runs the whole method body; the loops of      *)
(* read and write are RECURSIVE operators that follow the code iteration   *)
(* by iteration.  The variables op, arg, ret, err, pre, copies and hung    *)
(* record the call that has just returned (its name, argument, result,     *)
(* exception, the object before it, the memcpy calls it made), so that a   *)
(* property of a call is a state predicate.  fresh is a ghost bitmap of    *)
(* the slots that hold an accepted byte that no read has delivered yet.    *)
(*                                                                         *)
(* heap is the account of the storage block (whether _buf is NULL, the     *)
(* blocks PyMem_Malloc handed out, the PyMem_Free calls) and given the     *)
(* size the constructor was called with.  balance, accepted and delivered  *)
(* are ghosts of the byte stream: the bytes write took minus the bytes     *)
(* read returned, as a number and as the two byte sequences (with their    *)
(* common prefix dropped).                                                 *)
(***************************************************************************)
EXTENDS Integers, Sequences, FiniteSets, TLC

VARIABLES _size, _buf, _head, _tail, fresh, op, arg, ret, err, pre, copies, hung,
          heap, given, balance, accepted, delivered

vars == <<_size, _buf, _head, _tail, fresh, op, arg, ret, err, pre, copies, hung,
          heap, given, balance, accepted, delivered>>

(***************************************************************************)
(* Bounds of the model.                                                    *)
(***************************************************************************)
\* Machine words are modelled WordBits wide (the program's int is 32 bits and
\* its size_t 64 bits wide); every capacity, cursor and argument of the model
\* is far below 2^(WordBits-1), so only deliberately wrapped values
\* (head - tail, a negative index turned unsigned) come near the modulus.
WordBits == 12

\* Bytes written are drawn from 0..MaxByte.
MaxByte == 1

\* Longest byte string handed to write.
MaxLen == 4

\* Capacities the buffer is constructed with.
Capacities == {1, 2, 4}

\* Sizes handed to the constructor range over -MaxSize .. MaxSize.
MaxSize == 32

Bytes == 0 .. MaxByte

DataInputs == UNION {[1 .. n -> Bytes] : n \in 0 .. MaxLen}

WordMod == 2 ^ WordBits

\* The least and the greatest value of the C type int.
IntMin == -(WordMod \div 2)

IntMax == (WordMod \div 2) - 1

\* The parameters amt and index are C ints: small values around the sizes of
\* the model, and the two ends of the type.
AmtInputs == (-2 .. (MaxLen + 1)) \cup {IntMin, IntMax}

IndexInputs == (-2 .. (MaxLen + 1)) \cup {IntMin, IntMax}

\* The parameter size of the constructor is a C int: zero, small negative and
\* positive values, the greatest int and the greatest power of two of the type.
SizeInputs == (-MaxSize .. MaxSize) \cup {IntMax, WordMod \div 4}

(***************************************************************************)
(* C integer arithmetic.                                                   *)
(***************************************************************************)

\* Conversion to the unsigned type size_t (wraps modulo the word size).
size_t(x) == x % WordMod

\* Conversion to the signed type int (<int> casts, int locals).
c_int(x) == LET u == x % WordMod IN IF u >= WordMod \div 2 THEN u - WordMod ELSE u

RECURSIVE BitAnd(_, _)
\* a & b for a, b >= 0.
BitAnd(a, b) ==
    IF a = 0 \/ b = 0 THEN 0
    ELSE 2 * BitAnd(a \div 2, b \div 2) + (IF a % 2 = 1 /\ b % 2 = 1 THEN 1 ELSE 0)

\* a & b on unsigned words.
uand(a, b) == BitAnd(size_t(a), size_t(b))

(***************************************************************************)
(* The cursor helpers.                                                     *)
(***************************************************************************)
\* Mutant of _count: the difference of the cursors is not masked.
_count_nomask(head, tail, size) == size_t(head - tail)

\* Mutant of _count: the cursors are subtracted the wrong way round.
_count_swapped(head, tail, size) == uand(tail - head, size - 1)

_count(head, tail, size) == uand(head - tail, size - 1)

\* Mutant of _count_to_end: the run is not cut at the physical end of the block.
_count_to_end_uncut(head, tail, size) ==
    LET end == size_t(size - tail)
    IN  uand(head + end, size - 1)

\* Mutant of _count_to_end: the end of the block is measured from the write
\* cursor.
_count_to_end_from_head(head, tail, size) ==
    LET end == size_t(size - head)
        n   == uand(head + end, size - 1)
    IN  IF n < end THEN n ELSE end

_count_to_end(head, tail, size) ==
    LET end == size_t(size - tail)
        n   == uand(head + end, size - 1)
    IN  IF n < end THEN n ELSE end

\* Mutant of _space: no slot is held back (tail - head instead of tail - (head + 1)).
_space_unreserved(head, tail, size) == _count(tail, head, size)

_space(head, tail, size) == _count(tail, size_t(head + 1), size)

\* Mutant of _space_to_end: the run to the end of the block is one slot short
\* (end instead of end + 1 when the free region wraps).
_space_to_end_short(head, tail, size) ==
    LET end == size_t(size - 1 - head)
        n   == uand(end + tail, size - 1)
    IN  IF n <= end THEN n ELSE end

\* Mutant of _space_to_end: the read cursor is ignored, every slot up to the
\* end of the block counts as free.
_space_to_end_ignore_tail(head, tail, size) == size_t(size - head)

\* Mutant of _space_to_end: the two cursors are taken the wrong way round.
_space_to_end_swapped(head, tail, size) ==
    LET end == size_t(size - 1 - tail)
        n   == uand(end + head, size - 1)
    IN  IF n <= end THEN n ELSE size_t(end + 1)

\* Mutant of _space_to_end: the comparison is n < end, not n <= end.
_space_to_end_strict(head, tail, size) ==
    LET end == size_t(size - 1 - head)
        n   == uand(end + tail, size - 1)
    IN  IF n < end THEN n ELSE size_t(end + 1)

_space_to_end(head, tail, size) ==
    LET end == size_t(size - 1 - head)
        n   == uand(end + tail, size - 1)
    IN  IF n <= end THEN n ELSE size_t(end + 1)

(***************************************************************************)
(* memcpy.  A copy is recorded as <<first physical index, length>>.  An    *)
(* index outside the block is outside the allocation: a store there does   *)
(* not change the block, a load from there yields an arbitrary byte        *)
(* (Indeterminate marks it).                                               *)
(***************************************************************************)
Indeterminate == -1

InBlock(buf, i) == i \in DOMAIN buf

\* Mutant of the copy into the block: the source pointer is not advanced, every
\* copy starts again at the first byte of data.
memcpy_in_restart(buf, at, src, off, n) ==
    [i \in DOMAIN buf |->
        IF i >= at /\ i < at + n /\ (i - at) + 1 \in DOMAIN src
        THEN src[(i - at) + 1] ELSE buf[i]]

\* memcpy(self._buf + at, src + off, n)
memcpy_in(buf, at, src, off, n) ==
    [i \in DOMAIN buf |->
        IF i >= at /\ i < at + n /\ off + (i - at) + 1 \in DOMAIN src
        THEN src[off + (i - at) + 1] ELSE buf[i]]

\* Mutant of the copy out of the block: the copy starts at the first byte of
\* the block, not at the read cursor.
memcpy_out_no_tail(buf, at, n) ==
    [k \in 1 .. n |-> IF InBlock(buf, k - 1) THEN buf[k - 1] ELSE Indeterminate]

\* the n bytes memcpy(dst, self._buf + at, n) stores at dst
memcpy_out(buf, at, n) ==
    [k \in 1 .. n |-> IF InBlock(buf, at + k - 1) THEN buf[at + k - 1] ELSE Indeterminate]

\* Physical indices touched by a sequence of recorded copies.
Touched(cs) == UNION {{cs[j][1] + k : k \in 0 .. (cs[j][2] - 1)} : j \in DOMAIN cs}

(***************************************************************************)
(* RingBuffer.__cinit__                                                    *)
(***************************************************************************)
\* Mutant of __cinit__: the test is size & (size + 1).
__cinit___size_plus(size, malloc_ok) ==
    IF uand(size, size + 1) # 0
    THEN [err |-> "ValueError", size |-> 0, buf |-> <<>>, head |-> 0, tail |-> 0,
          null |-> TRUE]
    ELSE IF ~malloc_ok
    THEN [err |-> "MemoryError", size |-> size_t(size), buf |-> <<>>, head |-> 0, tail |-> 0,
          null |-> TRUE]
    ELSE [err |-> "none", size |-> size_t(size),
          buf |-> [i \in 0 .. (size_t(size) - 1) |-> 0], head |-> 0, tail |-> 0,
          null |-> FALSE]

\* Mutant of __cinit__: the block is not zero-filled after the allocation.
__cinit___no_memset(size, malloc_ok) ==
    IF uand(size, size - 1) # 0
    THEN [err |-> "ValueError", size |-> 0, buf |-> <<>>, head |-> 0, tail |-> 0,
          null |-> TRUE]
    ELSE IF ~malloc_ok
    THEN [err |-> "MemoryError", size |-> size_t(size), buf |-> <<>>, head |-> 0, tail |-> 0,
          null |-> TRUE]
    ELSE [err |-> "none", size |-> size_t(size),
          buf |-> [i \in 0 .. (size_t(size) - 1) |-> Indeterminate], head |-> 0, tail |-> 0,
          null |-> FALSE]

\* Mutant of __cinit__: the result of PyMem_Malloc is not tested for NULL.
__cinit___no_null_test(size, malloc_ok) ==
    IF uand(size, size - 1) # 0
    THEN [err |-> "ValueError", size |-> 0, buf |-> <<>>, head |-> 0, tail |-> 0,
          null |-> TRUE]
    ELSE IF ~malloc_ok
    THEN [err |-> "none", size |-> size_t(size), buf |-> <<>>, head |-> 0, tail |-> 0,
          null |-> TRUE]
    ELSE [err |-> "none", size |-> size_t(size),
          buf |-> [i \in 0 .. (size_t(size) - 1) |-> 0], head |-> 0, tail |-> 0,
          null |-> FALSE]

__cinit__(size, malloc_ok) ==
    IF uand(size, size - 1) # 0
    THEN [err |-> "ValueError", size |-> 0, buf |-> <<>>, head |-> 0, tail |-> 0,
          null |-> TRUE]
    ELSE IF ~malloc_ok
    THEN [err |-> "MemoryError", size |-> size_t(size), buf |-> <<>>, head |-> 0, tail |-> 0,
          null |-> TRUE]
    ELSE [err |-> "none", size |-> size_t(size),
          buf |-> [i \in 0 .. (size_t(size) - 1) |-> 0], head |-> 0, tail |-> 0,
          null |-> FALSE]

(***************************************************************************)
(* RingBuffer.write: the while loop, one iteration per unfolding.          *)
(* s = [bytes_buf, length, written, head, buf, copies] are the locals and  *)
(* the fields the loop assigns.                                            *)
(***************************************************************************)
\* Mutant of the write loop: the write cursor is advanced without the mask.
RECURSIVE write_loop_nomask(_, _, _, _)
write_loop_nomask(s, data, tail, size) ==
    LET spc   == _space_to_end(s.head, tail, size)
        spc2e == IF size_t(s.length) < spc THEN s.length ELSE spc
    IN  IF spc2e <= 0 THEN s
        ELSE write_loop_nomask(
                [bytes_buf |-> s.bytes_buf + spc2e,
                 length    |-> s.length - spc2e,
                 written   |-> c_int(s.written + spc2e),
                 head      |-> size_t(s.head + spc2e),
                 buf       |-> memcpy_in(s.buf, s.head, data, s.bytes_buf, spc2e),
                 copies    |-> Append(s.copies, <<s.head, spc2e>>)],
                data, tail, size)

RECURSIVE write_loop(_, _, _, _)
write_loop(s, data, tail, size) ==
    LET spc   == _space_to_end(s.head, tail, size)
        spc2e == IF size_t(s.length) < spc THEN s.length ELSE spc
    IN  IF spc2e <= 0 THEN s
        ELSE write_loop(
                [bytes_buf |-> s.bytes_buf + spc2e,
                 length    |-> s.length - spc2e,
                 written   |-> c_int(s.written + spc2e),
                 head      |-> uand(s.head + spc2e, size - 1),
                 buf       |-> memcpy_in(s.buf, s.head, data, s.bytes_buf, spc2e),
                 copies    |-> Append(s.copies, <<s.head, spc2e>>)],
                data, tail, size)

\* Mutant of write: the length of data is returned, not the number of bytes
\* copied.
write_returns_length(buf, head, tail, size, data) ==
    LET s == write_loop([bytes_buf |-> 0, length |-> Len(data), written |-> 0,
                         head |-> head, buf |-> buf, copies |-> <<>>],
                        data, tail, size)
    IN  [ret |-> c_int(Len(data)), buf |-> s.buf, head |-> s.head, copies |-> s.copies]

write(buf, head, tail, size, data) ==
    LET s == write_loop([bytes_buf |-> 0, length |-> Len(data), written |-> 0,
                         head |-> head, buf |-> buf, copies |-> <<>>],
                        data, tail, size)
    IN  [ret |-> c_int(s.written), buf |-> s.buf, head |-> s.head, copies |-> s.copies]

(***************************************************************************)
(* RingBuffer.read.  s = [amt, tail, out, copies, hung].  An iteration     *)
(* that copies nothing leaves every variable of the loop as it was, so the *)
(* loop never ends: hung records it.                                       *)
(***************************************************************************)
\* Mutant of the read loop: the read cursor is advanced without the mask.
RECURSIVE read_loop_nomask(_, _, _, _)
read_loop_nomask(s, buf, head, size) ==
    IF ~(s.amt > 0) THEN s
    ELSE LET read_amt == _count_to_end(head, s.tail, size)
             r        == IF size_t(s.amt) <= read_amt THEN s.amt ELSE read_amt
         IN  IF r = 0 THEN [s EXCEPT !.hung = TRUE]
             ELSE read_loop_nomask(
                     [amt    |-> c_int(s.amt - r),
                      tail   |-> size_t(s.tail + r),
                      out    |-> s.out \o memcpy_out(buf, s.tail, r),
                      copies |-> Append(s.copies, <<s.tail, r>>),
                      hung   |-> FALSE],
                     buf, head, size)

RECURSIVE read_loop(_, _, _, _)
read_loop(s, buf, head, size) ==
    IF ~(s.amt > 0) THEN s
    ELSE LET read_amt == _count_to_end(head, s.tail, size)
             r        == IF size_t(s.amt) <= read_amt THEN s.amt ELSE read_amt
         IN  IF r = 0 THEN [s EXCEPT !.hung = TRUE]
             ELSE read_loop(
                     [amt    |-> c_int(s.amt - r),
                      tail   |-> uand(s.tail + r, size - 1),
                      out    |-> s.out \o memcpy_out(buf, s.tail, r),
                      copies |-> Append(s.copies, <<s.tail, r>>),
                      hung   |-> FALSE],
                     buf, head, size)

\* PyBytes_FromStringAndSize(NULL, n): the exception it raises, "none" if none.
PyBytes_FromStringAndSize(n) == IF n < 0 THEN "SystemError" ELSE "none"

\* Mutant of read: a negative amt is not turned into "all that is buffered"
\* and reaches the allocation of the result.
read_negative_unclamped(buf, head, tail, size, amt) ==
    LET r    == _count(head, tail, size)
        amt1 == IF amt >= 0 /\ size_t(amt) > r THEN c_int(r) ELSE amt
    IN  IF amt1 = 0
        THEN [ret |-> <<>>, tail |-> tail, copies |-> <<>>, hung |-> FALSE, err |-> "none"]
        ELSE LET s == read_loop([amt |-> amt1, tail |-> tail, out |-> <<>>,
                                 copies |-> <<>>, hung |-> FALSE],
                                buf, head, size)
             IN  [ret |-> s.out, tail |-> s.tail, copies |-> s.copies, hung |-> s.hung,
                  err |-> PyBytes_FromStringAndSize(amt1)]

\* Mutant of read: the bytes are copied out but the read cursor stays (a peek).
read_keep_tail(buf, head, tail, size, amt) ==
    LET r    == _count(head, tail, size)
        amt1 == IF amt < 0 \/ size_t(amt) > r THEN c_int(r) ELSE amt
    IN  IF amt1 <= 0
        THEN [ret |-> <<>>, tail |-> tail, copies |-> <<>>, hung |-> FALSE, err |-> "none"]
        ELSE LET s == read_loop([amt |-> amt1, tail |-> tail, out |-> <<>>,
                                 copies |-> <<>>, hung |-> FALSE],
                                buf, head, size)
             IN  [ret |-> s.out, tail |-> tail, copies |-> s.copies, hung |-> s.hung,
                  err |-> PyBytes_FromStringAndSize(amt1)]

\* Mutant of read: amt <= 0 (not amt < 0) means "all that is buffered".
read_zero_is_all(buf, head, tail, size, amt) ==
    LET r    == _count(head, tail, size)
        amt1 == IF amt <= 0 \/ size_t(amt) > r THEN c_int(r) ELSE amt
    IN  IF amt1 <= 0
        THEN [ret |-> <<>>, tail |-> tail, copies |-> <<>>, hung |-> FALSE, err |-> "none"]
        ELSE LET s == read_loop([amt |-> amt1, tail |-> tail, out |-> <<>>,
                                 copies |-> <<>>, hung |-> FALSE],
                                buf, head, size)
             IN  [ret |-> s.out, tail |-> s.tail, copies |-> s.copies, hung |-> s.hung,
                  err |-> PyBytes_FromStringAndSize(amt1)]

\* Mutant of read: the request is clamped to one byte less than is buffered.
read_clamp_short(buf, head, tail, size, amt) ==
    LET r    == _count(head, tail, size)
        amt1 == IF amt < 0 \/ size_t(amt) > r THEN c_int(r) - 1 ELSE amt
    IN  IF amt1 <= 0
        THEN [ret |-> <<>>, tail |-> tail, copies |-> <<>>, hung |-> FALSE, err |-> "none"]
        ELSE LET s == read_loop([amt |-> amt1, tail |-> tail, out |-> <<>>,
                                 copies |-> <<>>, hung |-> FALSE],
                                buf, head, size)
             IN  [ret |-> s.out, tail |-> s.tail, copies |-> s.copies, hung |-> s.hung,
                  err |-> PyBytes_FromStringAndSize(amt1)]

read(buf, head, tail, size, amt) ==
    LET r    == _count(head, tail, size)
        amt1 == IF amt < 0 \/ size_t(amt) > r THEN c_int(r) ELSE amt
    IN  IF amt1 <= 0
        THEN [ret |-> <<>>, tail |-> tail, copies |-> <<>>, hung |-> FALSE, err |-> "none"]
        ELSE LET s == read_loop([amt |-> amt1, tail |-> tail, out |-> <<>>,
                                 copies |-> <<>>, hung |-> FALSE],
                                buf, head, size)
             IN  [ret |-> s.out, tail |-> s.tail, copies |-> s.copies, hung |-> s.hung,
                  err |-> PyBytes_FromStringAndSize(amt1)]

(***************************************************************************)
(* RingBuffer.__getitem__: index (an int) is compared with a size_t, so    *)
(* it is converted to size_t first.                                        *)
(***************************************************************************)
\* Mutant of __getitem__: the index is taken from the start of the block, not
\* from the read cursor.
__getitem___physical(buf, head, tail, size, index) ==
    IF size_t(index) >= _count(head, tail, size)
    THEN [err |-> "IndexError", ret |-> Indeterminate, slot |-> Indeterminate]
    ELSE LET at == uand(index, size - 1)
         IN  [err |-> "none",
              ret |-> c_int(IF InBlock(buf, at) THEN buf[at] ELSE Indeterminate),
              slot |-> at]

\* Mutant of __getitem__: the bound is checked on the signed index.
__getitem___signed(buf, head, tail, size, index) ==
    IF index >= _count(head, tail, size)
    THEN [err |-> "IndexError", ret |-> Indeterminate, slot |-> Indeterminate]
    ELSE LET at == uand(tail + index, size - 1)
         IN  [err |-> "none",
              ret |-> c_int(IF InBlock(buf, at) THEN buf[at] ELSE Indeterminate),
              slot |-> at]

__getitem__(buf, head, tail, size, index) ==
    IF size_t(index) >= _count(head, tail, size)
    THEN [err |-> "IndexError", ret |-> Indeterminate, slot |-> Indeterminate]
    ELSE LET at == uand(tail + index, size - 1)
         IN  [err |-> "none",
              ret |-> c_int(IF InBlock(buf, at) THEN buf[at] ELSE Indeterminate),
              slot |-> at]

\* Mutant of __len__: the write cursor is taken for the number of bytes.
__len___head(head, tail, size) == c_int(head)

\* RingBuffer.__len__
__len__(head, tail, size) == c_int(_count(head, tail, size))

\* RingBuffer.freespace
freespace(head, tail, size) == c_int(_space(head, tail, size))

(***************************************************************************)
(* The state machine.                                                      *)
(***************************************************************************)
Snapshot == [buf |-> _buf, head |-> _head, tail |-> _tail, size |-> _size, fresh |-> fresh]

\* The account of the storage block when __cinit__ has ended as o: a block
\* was handed out unless _buf is NULL.
HeapAfter(o) == [null |-> o.null, mallocs |-> IF o.null THEN 0 ELSE 1, frees |-> 0]

\* Two byte sequences without their longest common prefix.
RECURSIVE StripCommon(_, _)
StripCommon(a, d) ==
    IF a # <<>> /\ d # <<>> /\ Head(a) = Head(d)
    THEN StripCommon(Tail(a), Tail(d))
    ELSE <<a, d>>

\* No byte has gone through the buffer yet.
NoStream == balance = 0 /\ accepted = <<>> /\ delivered = <<>>

NoCall ==
    /\ op = "none" /\ arg = 0 /\ ret = 0 /\ err = "none"
    /\ copies = <<>> /\ hung = FALSE
    /\ pre = Snapshot

Init ==
    \E c \in Capacities :
        LET o == __cinit__(c, TRUE)
        IN  /\ o.err = "none"
            /\ _size = o.size /\ _buf = o.buf /\ _head = o.head /\ _tail = o.tail
            /\ fresh = [i \in DOMAIN o.buf |-> FALSE]
            /\ heap = HeapAfter(o) /\ given = c
            /\ NoStream
            /\ NoCall

\* The caller has taken the result of the last call; the next call may start.
Idle == op = "none"

\* A call that loops for ever does not return, and neither does a constructor
\* that raised.
Return ==
    /\ op \notin {"none", "new", "dealloc"}
    /\ op = "cinit" => err = "none"
    /\ ~hung
    /\ op' = "none" /\ arg' = 0 /\ ret' = 0 /\ err' = "none"
    /\ copies' = <<>> /\ hung' = FALSE
    /\ pre' = Snapshot
    /\ UNCHANGED <<_size, _buf, _head, _tail, fresh>>
    /\ UNCHANGED <<heap, given, balance, accepted, delivered>>

\* The call write(data).
WriteCall(data) ==
    /\ Idle
    /\ LET w == write(_buf, _head, _tail, _size, data)
       IN  /\ _buf' = w.buf
           /\ _head' = w.head
           /\ fresh' = [i \in DOMAIN fresh |-> fresh[i] \/ i \in Touched(w.copies)]
           /\ op' = "write" /\ arg' = data /\ ret' = w.ret /\ err' = "none"
           /\ copies' = w.copies /\ hung' = FALSE
           /\ balance' = balance + w.ret
           /\ accepted' = accepted \o SubSeq(data, 1, w.ret)
    /\ pre' = Snapshot
    /\ UNCHANGED <<_size, _tail, heap, given, delivered>>

\* Mutant of the call read(amt): the slots that were read are zeroed.
ReadCall_zeroes(amt) ==
    /\ op = "none"
    /\ LET r == read(_buf, _head, _tail, _size, amt)
       IN  /\ _tail' = r.tail
           /\ _buf' = [i \in DOMAIN _buf |-> IF i \in Touched(r.copies) THEN 0 ELSE _buf[i]]
           /\ fresh' = [i \in DOMAIN fresh |-> fresh[i] /\ i \notin Touched(r.copies)]
           /\ op' = "read" /\ arg' = amt /\ ret' = r.ret /\ err' = r.err
           /\ copies' = r.copies /\ hung' = r.hung
           /\ balance' = balance - Len(r.ret)
           /\ LET rest == StripCommon(accepted, delivered \o r.ret)
              IN  accepted' = rest[1] /\ delivered' = rest[2]
    /\ pre' = [buf |-> _buf, head |-> _head, tail |-> _tail, size |-> _size, fresh |-> fresh]
    /\ UNCHANGED <<_size, _head, heap, given>>

\* The call read(amt).
ReadCall(amt) ==
    /\ Idle
    /\ LET r == read(_buf, _head, _tail, _size, amt)
       IN  /\ _tail' = r.tail
           /\ fresh' = [i \in DOMAIN fresh |-> fresh[i] /\ i \notin Touched(r.copies)]
           /\ op' = "read" /\ arg' = amt /\ ret' = r.ret /\ err' = r.err
           /\ copies' = r.copies /\ hung' = r.hung
           /\ balance' = balance - Len(r.ret)
           /\ LET rest == StripCommon(accepted, delivered \o r.ret)
              IN  accepted' = rest[1] /\ delivered' = rest[2]
    /\ pre' = Snapshot
    /\ UNCHANGED <<_size, _buf, _head, heap, given>>

Write == \E data \in DataInputs : WriteCall(data)

Read == \E amt \in AmtInputs : ReadCall(amt)

GetItem ==
    /\ Idle
    /\ \E index \in IndexInputs :
        LET g == __getitem__(_buf, _head, _tail, _size, index)
        IN  /\ op' = "getitem" /\ arg' = index /\ ret' = g.ret /\ err' = g.err
            /\ copies' = IF g.err = "none" THEN <<<<g.slot, 1>>>> ELSE <<>>
    /\ hung' = FALSE
    /\ pre' = Snapshot
    /\ UNCHANGED <<_size, _buf, _head, _tail, fresh>>
    /\ UNCHANGED <<heap, given, balance, accepted, delivered>>

\* Mutant of clear: the cursors are reset but the block is not zero-filled.
Clear_no_memset ==
    /\ op = "none"
    /\ _buf' = _buf
    /\ _head' = 0
    /\ _tail' = 0
    /\ fresh' = [i \in DOMAIN fresh |-> FALSE]
    /\ op' = "clear" /\ arg' = 0 /\ ret' = 0 /\ err' = "none"
    /\ copies' = <<>> /\ hung' = FALSE
    /\ pre' = [buf |-> _buf, head |-> _head, tail |-> _tail, size |-> _size, fresh |-> fresh]
    /\ balance' = 0 /\ accepted' = <<>> /\ delivered' = <<>>
    /\ UNCHANGED <<_size, heap, given>>

\* Mutant of clear: the capacity is reset together with the cursors.
Clear_reset_size ==
    /\ op = "none"
    /\ _buf' = [i \in DOMAIN _buf |-> IF i < _size THEN 0 ELSE _buf[i]]
    /\ _head' = 0
    /\ _tail' = 0
    /\ _size' = 0
    /\ fresh' = [i \in DOMAIN fresh |-> FALSE]
    /\ op' = "clear" /\ arg' = 0 /\ ret' = 0 /\ err' = "none"
    /\ copies' = <<>> /\ hung' = FALSE
    /\ pre' = [buf |-> _buf, head |-> _head, tail |-> _tail, size |-> _size, fresh |-> fresh]
    /\ balance' = 0 /\ accepted' = <<>> /\ delivered' = <<>>
    /\ UNCHANGED <<heap, given>>

\* RingBuffer.clear
Clear ==
    /\ Idle
    /\ _buf' = [i \in DOMAIN _buf |-> IF i < _size THEN 0 ELSE _buf[i]]
    /\ _head' = 0
    /\ _tail' = 0
    /\ fresh' = [i \in DOMAIN fresh |-> FALSE]
    /\ op' = "clear" /\ arg' = 0 /\ ret' = 0 /\ err' = "none"
    /\ copies' = <<>> /\ hung' = FALSE
    /\ pre' = Snapshot
    /\ balance' = 0 /\ accepted' = <<>> /\ delivered' = <<>>
    /\ UNCHANGED <<_size, heap, given>>

\* A call that changes no field: name, result.
Query(name, result) ==
    /\ Idle
    /\ op' = name /\ arg' = 0 /\ ret' = result /\ err' = "none"
    /\ copies' = <<>> /\ hung' = FALSE
    /\ pre' = Snapshot
    /\ UNCHANGED <<_size, _buf, _head, _tail, fresh>>
    /\ UNCHANGED <<heap, given, balance, accepted, delivered>>

\* Mutant of buffer: only the buffered bytes are returned, oldest first.
Buffer_logical ==
    Query("buffer", [k \in 1 .. _count(_head, _tail, _size) |->
                        _buf[uand(_tail + k - 1, _size - 1)]])

\* RingBuffer.buffer (the whole block as bytes)
Buffer == Query("buffer", [k \in 1 .. _size |-> _buf[k - 1]])

Len_ == Query("len", __len__(_head, _tail, _size))

FreeSpace == Query("freespace", freespace(_head, _tail, _size))

Size == Query("size", c_int(_size))

Flush == Query("flush", "NotImplemented")

\* Mutant of close: closing discards what is buffered.
Close_discards ==
    /\ op = "none"
    /\ _tail' = _head
    /\ fresh' = [i \in DOMAIN fresh |-> FALSE]
    /\ op' = "close" /\ arg' = 0 /\ ret' = "NotImplemented" /\ err' = "none"
    /\ copies' = <<>> /\ hung' = FALSE
    /\ pre' = [buf |-> _buf, head |-> _head, tail |-> _tail, size |-> _size, fresh |-> fresh]
    /\ balance' = 0 /\ accepted' = <<>> /\ delivered' = <<>>
    /\ UNCHANGED <<_size, _buf, _head, heap, given>>

Close == Query("close", "NotImplemented")

\* Mutant of fileno: the descriptor of the standard input is returned.
Fileno_stdin == Query("fileno", 0)

Fileno == Query("fileno", -1)

\* Mutant of __nonzero__: true when bytes are buffered.
NonZero_has_data == Query("nonzero", _head # _tail)

NonZero == Query("nonzero", _head = _tail)

\* The names that the body of the class defines for its users (the cdef
\* fields _size, _buf, _head, _tail are not visible from Python).
Attributes ==
    {"clear", "read", "write", "fileno", "close", "flush", "freespace", "size", "buffer"}

\* The stream flags that the declaration of the class lists next to size,
\* buffer and freespace.
Flags == {"readable", "writable", "seekable"}

\* Looking up name on a RingBuffer: the exception raised, "none" if none.
getattr(name) == IF name \in Attributes THEN "none" ELSE "AttributeError"

\* Reading one of the stream flags of the object.
GetFlag ==
    /\ Idle
    /\ \E name \in Flags :
        /\ op' = "getattr" /\ arg' = name /\ err' = getattr(name)
    /\ ret' = 0
    /\ copies' = <<>> /\ hung' = FALSE
    /\ pre' = Snapshot
    /\ UNCHANGED <<_size, _buf, _head, _tail, fresh>>
    /\ UNCHANGED <<heap, given, balance, accepted, delivered>>

Next ==
    \/ Write
    \/ Read
    \/ GetItem
    \/ Clear
    \/ Buffer
    \/ Len_
    \/ FreeSpace
    \/ Size
    \/ Flush
    \/ Close
    \/ Fileno
    \/ NonZero
    \/ Return

Spec == Init /\ [][Next]_vars


(***************************************************************************)
(* The wraparound run: a buffer of capacity 8, writes of ABCDE and FGHIJ   *)
(* and reads of 3 bytes and of everything, in any order.                   *)
(***************************************************************************)
ABCDE == <<65, 66, 67, 68, 69>>

FGHIJ == <<70, 71, 72, 73, 74>>

WrapData == {ABCDE, FGHIJ}

WrapAmts == {3, -1}

InitWrap ==
    LET o == __cinit__(8, TRUE)
    IN  /\ o.err = "none"
        /\ _size = o.size /\ _buf = o.buf /\ _head = o.head /\ _tail = o.tail
        /\ fresh = [i \in DOMAIN o.buf |-> FALSE]
        /\ heap = HeapAfter(o) /\ given = 8
        /\ NoStream
        /\ NoCall

WrapWrite == \E data \in WrapData : WriteCall(data)

WrapRead == \E amt \in WrapAmts : ReadCall(amt)

NextWrap ==
    \/ WrapWrite
    \/ WrapRead
    \/ Return

SpecWrap == InitWrap /\ [][NextWrap]_vars

(***************************************************************************)
(* Construction.  The object starts as tp_new leaves it (every field       *)
(* zero, _buf NULL); Construct runs __cinit__ on a size and on whether     *)
(* PyMem_Malloc finds memory.  A constructor that raised leaves no object  *)
(* to call.                                                                *)
(***************************************************************************)
InitNew ==
    /\ _size = 0 /\ _buf = <<>> /\ _head = 0 /\ _tail = 0
    /\ fresh = <<>>
    /\ op = "new" /\ arg = 0 /\ ret = 0 /\ err = "none"
    /\ copies = <<>> /\ hung = FALSE
    /\ pre = Snapshot
    /\ heap = [null |-> TRUE, mallocs |-> 0, frees |-> 0] /\ given = 0
    /\ NoStream

\* The call RingBuffer(size), with PyMem_Malloc finding memory or not.
ConstructCall(size, malloc_ok) ==
    /\ op = "new"
    /\ LET o == __cinit__(size, malloc_ok)
       IN  /\ _size' = o.size /\ _buf' = o.buf /\ _head' = o.head /\ _tail' = o.tail
           /\ fresh' = [i \in DOMAIN o.buf |-> FALSE]
           /\ op' = "cinit" /\ arg' = <<size, malloc_ok>> /\ ret' = 0 /\ err' = o.err
           /\ heap' = HeapAfter(o)
    /\ given' = size
    /\ copies' = <<>> /\ hung' = FALSE
    /\ pre' = Snapshot
    /\ UNCHANGED <<balance, accepted, delivered>>

Construct == \E size \in SizeInputs, malloc_ok \in BOOLEAN : ConstructCall(size, malloc_ok)

NextNew == Construct

SpecNew == InitNew /\ [][NextNew]_vars

(***************************************************************************)
(* The life of one object: it is constructed, called and destroyed.  The   *)
(* sizes are the small ones, accepted (0, 1, 2, 4) and rejected (-1, 3).   *)
(* tp_dealloc runs __dealloc__ when the last reference goes, which is      *)
(* between two calls, or at once when __cinit__ has raised (err keeps the  *)
(* exception that is on its way to the caller).                            *)
(***************************************************************************)
LifeSizes == (0 - 1) .. 4

LifeData == {<<1>>, <<0, 1, 1>>}

LifeAmts == {0 - 1, 2}

\* Mutant of __dealloc__: the block is freed without the test for NULL.
Dealloc_unguarded ==
    /\ op = "none" \/ (op = "cinit" /\ err # "none")
    /\ heap' = [heap EXCEPT !.frees = @ + 1]
    /\ op' = "dealloc" /\ arg' = 0 /\ ret' = 0
    /\ copies' = <<>> /\ hung' = FALSE
    /\ pre' = [buf |-> _buf, head |-> _head, tail |-> _tail, size |-> _size, fresh |-> fresh]
    /\ UNCHANGED <<_size, _buf, _head, _tail, fresh, err>>
    /\ UNCHANGED <<given, balance, accepted, delivered>>

\* RingBuffer.__dealloc__
Dealloc ==
    /\ Idle \/ (op = "cinit" /\ err # "none")
    /\ heap' = IF ~heap.null THEN [heap EXCEPT !.frees = @ + 1] ELSE heap
    /\ op' = "dealloc" /\ arg' = 0 /\ ret' = 0
    /\ copies' = <<>> /\ hung' = FALSE
    /\ pre' = Snapshot
    /\ UNCHANGED <<_size, _buf, _head, _tail, fresh, err>>
    /\ UNCHANGED <<given, balance, accepted, delivered>>

LifeConstruct == \E size \in LifeSizes, malloc_ok \in BOOLEAN : ConstructCall(size, malloc_ok)

\* The writes stop when MaxLen accepted bytes are waiting to be read.
LifeWrite == Len(accepted) < MaxLen /\ \E data \in LifeData : WriteCall(data)

LifeRead == \E amt \in LifeAmts : ReadCall(amt)

NextLife ==
    \/ LifeConstruct
    \/ LifeWrite
    \/ LifeRead
    \/ Clear
    \/ GetFlag
    \/ Dealloc
    \/ Return

SpecLife == InitNew /\ [][NextLife]_vars

(***************************************************************************)
(* The two helpers that cut a run at the end of the block, applied to      *)
(* every pair of cursors of a buffer of capacity 1, 2, 4, ... up to        *)
(* MaxSize.  The buffer is one that holds zero bytes between its cursors   *)
(* (every byte written so far was 0).                                      *)
(***************************************************************************)
HelperCapacities == {c \in 1 .. MaxSize : \E k \in 0 .. WordBits : c = 2 ^ k}

InitHelpers ==
    \E c \in HelperCapacities :
        \E h \in 0 .. (c - 1), t \in 0 .. (c - 1) :
            LET o == __cinit__(c, TRUE)
                n == (h - t) % c
            IN  /\ o.err = "none"
                /\ _size = o.size /\ _buf = o.buf /\ _head = h /\ _tail = t
                /\ fresh = [i \in DOMAIN o.buf |-> (i - t) % c < n]
                /\ heap = HeapAfter(o) /\ given = c
                /\ balance = n /\ accepted = [i \in 1 .. n |-> 0] /\ delivered = <<>>
                /\ NoCall

\* A call of a helper on the cursors of the object: name, result.
Helper(name, result) ==
    /\ Idle
    /\ op' = name /\ arg' = <<_head, _tail, _size>> /\ ret' = result /\ err' = "none"
    /\ copies' = <<>> /\ hung' = FALSE
    /\ pre' = Snapshot
    /\ UNCHANGED <<_size, _buf, _head, _tail, fresh>>
    /\ UNCHANGED <<heap, given, balance, accepted, delivered>>

CountToEnd == Helper("_count_to_end", _count_to_end(_head, _tail, _size))

SpaceToEnd == Helper("_space_to_end", _space_to_end(_head, _tail, _size))

NextHelpers ==
    \/ CountToEnd
    \/ SpaceToEnd

SpecHelpers == InitHelpers /\ [][NextHelpers]_vars

(***************************************************************************)
(* Vocabulary of the properties.                                           *)
(***************************************************************************)
Min(a, b) == IF a <= b THEN a ELSE b

\* The buffered content: the bytes from the read cursor up to the write
\* cursor, oldest first.
Contents(buf, head, tail, size) ==
    [i \in 1 .. ((head - tail) % size) |-> buf[(tail + i - 1) % size]]

NowContents == Contents(_buf, _head, _tail, _size)

PreContents == Contents(pre.buf, pre.head, pre.tail, pre.size)

NowLen == __len__(_head, _tail, _size)

PreLen == __len__(pre.head, pre.tail, pre.size)

NowFree == freespace(_head, _tail, _size)

PreFree == freespace(pre.head, pre.tail, pre.size)

\* The call that has just returned changed no field of the object.
ObjectUnchanged ==
    /\ _buf = pre.buf /\ _head = pre.head /\ _tail = pre.tail /\ _size = pre.size

\* What read(-1), called now, would return.
ReadAllNow == read(_buf, _head, _tail, _size, -1)

(***************************************************************************)
(* C1.  In every reachable state usedCount() + freeSpace() = capacity - 1. *)
(***************************************************************************)
TheoremC1 == NowLen + NowFree = _size - 1

\* A write has wrapped: the write cursor is physically before the read cursor.
WitnessC1 == op = "write" /\ ret > 0 /\ _head < _tail /\ _size = 4 /\ NowLen = 2

(***************************************************************************)
(* C2.  Round trip: a write of S, len(S) <= capacity - 1, to an empty      *)
(* buffer (cursors equal, anywhere in the block) returns len(S), and       *)
(* read(-1) called next returns exactly S and leaves usedCount() = 0.      *)
(***************************************************************************)
TheoremC2 ==
    (op = "write" /\ PreLen = 0 /\ Len(arg) <= _size - 1) =>
        /\ ret = Len(arg)
        /\ ReadAllNow.ret = arg
        /\ ~ReadAllNow.hung
        /\ __len__(_head, ReadAllNow.tail, _size) = 0

\* The buffer was empty with both cursors on the last slot, S fills it and
\* straddles the end of the block.
WitnessC2 ==
    /\ op = "write" /\ PreLen = 0 /\ pre.head = 3 /\ _size = 4
    /\ arg = <<1, 0, 1>> /\ ret = 3 /\ ReadAllNow.ret = <<1, 0, 1>>

(***************************************************************************)
(* C3.  write(data) returns min(len(data), freeSpace() before the call);   *)
(* usedCount() grows by that number, the write cursor advances by it       *)
(* modulo the capacity, the buffered content grows by the leading bytes of *)
(* data, in order, and no error is raised, also when data does not fit.    *)
(***************************************************************************)
TheoremC3 ==
    op = "write" =>
        /\ ret = Min(Len(arg), PreFree)
        /\ NowLen = PreLen + ret
        /\ _head = (pre.head + ret) % _size
        /\ NowContents = PreContents \o SubSeq(arg, 1, ret)
        /\ err = "none"

\* A truncated write that straddles the end of the block.
WitnessC3 ==
    /\ op = "write" /\ _size = 4 /\ pre.head = 3 /\ pre.tail = 2
    /\ Len(arg) = 4 /\ ret = 2 /\ arg[1] # arg[2]

(***************************************************************************)
(* C4.  A write of the empty string, and any write when freeSpace() = 0,   *)
(* returns 0 and changes neither cursor nor any byte of the block.         *)
(***************************************************************************)
TheoremC4 ==
    (op = "write" /\ (Len(arg) = 0 \/ PreFree = 0)) =>
        ret = 0 /\ ObjectUnchanged

\* Capacity 4 holding 3 bytes, and a write of one byte.
WitnessC4 ==
    /\ op = "write" /\ _size = 4 /\ PreLen = 3 /\ PreFree = 0
    /\ Len(arg) = 1 /\ ret = 0

(***************************************************************************)
(* C5.  read(amount) returns the k oldest unread bytes in the order they   *)
(* were written, k = usedCount() if amount < 0 or amount > usedCount(),    *)
(* else k = amount, and advances the read cursor by k modulo the capacity. *)
(***************************************************************************)
ReadCount(amount, used) == IF amount < 0 \/ amount > used THEN used ELSE amount

TheoremC5 ==
    op = "read" =>
        LET k == ReadCount(arg, PreLen)
        IN  /\ Len(ret) = k
            /\ ret = SubSeq(PreContents, 1, k)
            /\ _tail = (pre.tail + k) % _size
            /\ ~hung

\* read(-2) of three bytes that straddle the end of the block.
WitnessC5 ==
    /\ op = "read" /\ arg = -2 /\ _size = 4 /\ pre.tail = 2 /\ PreLen = 3
    /\ Len(ret) = 3 /\ ret[1] # ret[2]

(***************************************************************************)
(* C6.  read is destructive: a read that returns k bytes makes             *)
(* usedCount() smaller by k and freeSpace() larger by k, and a byte it     *)
(* returned is never returned again: every slot a read or a peek takes a   *)
(* byte from holds an accepted byte that no earlier read has delivered,    *)
(* and a read takes its k bytes from k different slots.                    *)
(***************************************************************************)
TheoremC6 ==
    /\ op = "read" =>
        /\ NowLen = PreLen - Len(ret)
        /\ NowFree = PreFree + Len(ret)
        /\ Cardinality(Touched(copies)) = Len(ret)
        /\ \A i \in Touched(copies) : i \in DOMAIN fresh /\ pre.fresh[i] /\ ~fresh[i]
    /\ (op = "getitem" /\ err = "none") =>
        \A i \in Touched(copies) : i \in DOMAIN fresh /\ pre.fresh[i]

\* A read of two bytes out of three, after earlier reads have already
\* delivered the bytes of other slots.
WitnessC6 ==
    /\ op = "read" /\ Len(ret) = 2 /\ PreLen = 3 /\ NowLen = 1 /\ pre.tail = 3
    /\ _size = 4

(***************************************************************************)
(* C7.  read(0), and any read of an empty buffer, returns the empty        *)
(* sequence and changes neither cursor nor any byte of the block.          *)
(***************************************************************************)
TheoremC7 ==
    (op = "read" /\ (arg = 0 \/ PreLen = 0)) =>
        ret = <<>> /\ ObjectUnchanged

\* read(0) of a buffer that holds bytes.
WitnessC7 == op = "read" /\ arg = 0 /\ PreLen = 3 /\ ret = <<>>

(***************************************************************************)
(* C8.  For 0 <= index < usedCount(), peek(index) returns the byte that a  *)
(* read(-1) called next returns at position index, and changes neither     *)
(* cursor nor any byte of the block.                                       *)
(***************************************************************************)
TheoremC8 ==
    (op = "getitem" /\ arg >= 0 /\ arg < PreLen) =>
        /\ err = "none"
        /\ ret = ReadAllNow.ret[arg + 1]
        /\ ObjectUnchanged
        /\ NowLen = PreLen

\* peek(2) of three bytes, the third physically before the first.
WitnessC8 ==
    /\ op = "getitem" /\ arg = 2 /\ PreLen = 3 /\ _size = 4 /\ _tail = 3
    /\ err = "none" /\ ret = 1 /\ _buf[3] = 0

(***************************************************************************)
(* C9.  peek(index) fails with IndexError whenever index >= usedCount()    *)
(* or index < 0, and the failing call changes nothing.                     *)
(***************************************************************************)
TheoremC9 ==
    (op = "getitem" /\ (arg >= PreLen \/ arg < 0)) =>
        err = "IndexError" /\ ObjectUnchanged

\* peek(-1) of a buffer that holds bytes.
WitnessC9 == op = "getitem" /\ arg = -1 /\ PreLen = 3 /\ err = "IndexError"

(***************************************************************************)
(* C10.  clear() leaves the object as a freshly constructed buffer of the  *)
(* same capacity: cursors zero, block zero, usedCount() = 0,               *)
(* freeSpace() = capacity - 1, and peek(0) fails with IndexError.          *)
(***************************************************************************)
TheoremC10 ==
    op = "clear" =>
        LET o == __cinit__(c_int(pre.size), TRUE)
        IN  /\ o.err = "none"
            /\ _size = o.size /\ _buf = o.buf /\ _head = o.head /\ _tail = o.tail
            /\ _head = 0 /\ _tail = 0
            /\ \A i \in 0 .. (_size - 1) : _buf[i] = 0
            /\ NowLen = 0
            /\ NowFree = _size - 1
            /\ __getitem__(_buf, _head, _tail, _size, 0).err = "IndexError"

\* clear() of a buffer that held bytes, with non-zero bytes in the block.
WitnessC10 ==
    /\ op = "clear" /\ PreLen = 2 /\ pre.tail = 3 /\ _size = 4
    /\ \E i \in 0 .. 3 : pre.buf[i] # 0

(***************************************************************************)
(* C11.  For a positive capacity c the constructor raises ValueError       *)
(* exactly when c is no power of two, and, memory being available,         *)
(* succeeds exactly when c is a power of two (10 fails, 16 succeeds).      *)
(***************************************************************************)
IsPowerOfTwo(c) == \E k \in 0 .. WordBits : c = 2 ^ k

TheoremC11 ==
    (op = "cinit" /\ arg[1] > 0) =>
        /\ err = "ValueError" <=> ~IsPowerOfTwo(arg[1])
        /\ arg[2] => (err = "none" <=> IsPowerOfTwo(arg[1]))
        /\ err = "none" => _size = arg[1]
        /\ arg[1] = 10 => err = "ValueError"
        /\ arg = <<16, TRUE>> => err = "none"

\* Construct(10) has raised ValueError.
WitnessC11 == op = "cinit" /\ arg = <<10, TRUE>> /\ err = "ValueError"

(***************************************************************************)
(* C12.  Construct(c) with c = 0 or c negative fails with ValueError, so   *)
(* no RingBuffer with a non-positive capacity exists.                      *)
(***************************************************************************)
CounterC12 ==
    /\ (op = "cinit" /\ arg[1] <= 0 /\ arg[2]) => err = "ValueError"
    /\ (op = "cinit" /\ err = "none") => _size > 0

(***************************************************************************)
(* C13.  Right after a successful Construct(capacity) the block has        *)
(* capacity bytes, all zero, both cursors are zero, usedCount() = 0 and    *)
(* freeSpace() = capacity - 1.                                             *)
(***************************************************************************)
TheoremC13 ==
    (op = "cinit" /\ err = "none") =>
        /\ DOMAIN _buf = 0 .. (arg[1] - 1)
        /\ \A i \in DOMAIN _buf : _buf[i] = 0
        /\ _head = 0 /\ _tail = 0
        /\ NowLen = 0
        /\ NowFree = arg[1] - 1

\* Construct(16) has succeeded.
WitnessC13 == op = "cinit" /\ arg = <<16, TRUE>> /\ err = "none" /\ _size = 16

(***************************************************************************)
(* C14.  In every reachable state usedCount() <= capacity - 1, and the     *)
(* buffer holds exactly usedCount() accepted bytes that no read has        *)
(* delivered: no writes, however large or interleaved with reads, make it  *)
(* hold capacity bytes.                                                    *)
(***************************************************************************)
Held == {i \in DOMAIN fresh : fresh[i]}

TheoremC14 ==
    /\ NowLen <= _size - 1
    /\ Cardinality(Held) = NowLen

\* A write of capacity bytes into an empty buffer whose cursors are inside
\* the block: capacity - 1 bytes are taken.
WitnessC14 ==
    /\ op = "write" /\ _size = 4 /\ Len(arg) = 4 /\ PreLen = 0 /\ pre.tail = 2
    /\ ret = 3 /\ NowLen = 3

(***************************************************************************)
(* C15.  In every reachable state both cursors lie in [0, capacity), and   *)
(* every cursor update by write or read is reduced modulo the capacity.    *)
(***************************************************************************)
TheoremC15 ==
    /\ _head \in 0 .. (_size - 1)
    /\ _tail \in 0 .. (_size - 1)
    /\ op = "write" => _head = (pre.head + ret) % _size
    /\ op = "read" => _tail = (pre.tail + Len(ret)) % _size

\* A write that carries the write cursor over the end of the block.
WitnessC15 ==
    /\ op = "write" /\ _size = 4 /\ pre.head = 3 /\ ret = 2 /\ _head = 1

(***************************************************************************)
(* C17.  The cursors are equal exactly when usedCount() = 0, freeSpace()   *)
(* is 0 exactly when (writeCursor + 1) mod capacity = readCursor, and for  *)
(* a capacity >= 2 the buffer is never empty and full at once.             *)
(***************************************************************************)
TheoremC17 ==
    /\ _head = _tail <=> NowLen = 0
    /\ NowLen = 0 <=> Held = {}
    /\ NowFree = 0 <=> (_head + 1) % _size = _tail
    /\ _size >= 2 => ~(NowLen = 0 /\ NowFree = 0)

\* A full buffer whose write cursor is on the last slot and whose read cursor
\* is on the first.
WitnessC17 ==
    /\ op = "write" /\ _size = 4 /\ _head = 3 /\ _tail = 0 /\ NowFree = 0
    /\ NowLen = 3

(***************************************************************************)
(* C18.  usedCount() = (writeCursor - readCursor) mod capacity and         *)
(* freeSpace() = (readCursor - writeCursor - 1) mod capacity in every      *)
(* reachable state, and neither query changes a cursor or the block.       *)
(***************************************************************************)
TheoremC18 ==
    /\ NowLen = (_head - _tail) % _size
    /\ NowFree = (_tail - _head - 1) % _size
    /\ op = "len" => (ret = (pre.head - pre.tail) % pre.size /\ ObjectUnchanged)
    /\ op = "freespace" =>
            (ret = (pre.tail - pre.head - 1) % pre.size /\ ObjectUnchanged)

\* freeSpace() asked while the write cursor is physically before the read
\* cursor.
WitnessC18 ==
    /\ op = "freespace" /\ _size = 4 /\ _head = 0 /\ _tail = 2 /\ ret = 1

(***************************************************************************)
(* C16.  Wraparound on a capacity-8 buffer: write(ABCDE) returns 5         *)
(* (usedCount 5, freeSpace 2); read(3) returns ABC (usedCount 2);          *)
(* write(FGHIJ) returns 5 although it straddles the end of the block       *)
(* (usedCount 7); read(-1) returns DEFGHIJ and usedCount() becomes 0.      *)
(* Each step starts from the object the step before it left.               *)
(***************************************************************************)
Block(q) == [i \in 0 .. (Len(q) - 1) |-> q[i + 1]]

PreIs(head, tail, q) == pre.head = head /\ pre.tail = tail /\ pre.buf = Block(q)

NowIs(head, tail, q) == _head = head /\ _tail = tail /\ _buf = Block(q)

TheoremC16 ==
    /\ (op = "write" /\ arg = ABCDE /\ PreIs(0, 0, <<0, 0, 0, 0, 0, 0, 0, 0>>)) =>
            /\ ret = 5 /\ NowLen = 5 /\ NowFree = 2
            /\ NowIs(5, 0, <<65, 66, 67, 68, 69, 0, 0, 0>>)
    /\ (op = "read" /\ arg = 3 /\ PreIs(5, 0, <<65, 66, 67, 68, 69, 0, 0, 0>>)) =>
            /\ ret = <<65, 66, 67>> /\ NowLen = 2
            /\ NowIs(5, 3, <<65, 66, 67, 68, 69, 0, 0, 0>>)
    /\ (op = "write" /\ arg = FGHIJ /\ PreIs(5, 3, <<65, 66, 67, 68, 69, 0, 0, 0>>)) =>
            /\ ret = 5 /\ NowLen = 7 /\ Len(copies) = 2
            /\ NowIs(2, 3, <<73, 74, 67, 68, 69, 70, 71, 72>>)
    /\ (op = "read" /\ arg = -1 /\ PreIs(2, 3, <<73, 74, 67, 68, 69, 70, 71, 72>>)) =>
            /\ ret = <<68, 69, 70, 71, 72, 73, 74>> /\ NowLen = 0
            /\ NowIs(2, 2, <<73, 74, 67, 68, 69, 70, 71, 72>>)

\* The last step of the run: read(-1) from the object that the write of FGHIJ
\* left has returned DEFGHIJ.
WitnessC16 ==
    /\ op = "read" /\ arg = -1 /\ PreIs(2, 3, <<73, 74, 67, 68, 69, 70, 71, 72>>)
    /\ ret = <<68, 69, 70, 71, 72, 73, 74>> /\ _size = 8 /\ NowLen = 0

TheoremC20 ==
    op = "buffer" =>
        /\ Len(ret) = _size
        /\ \A i \in 0 .. (_size - 1) : ret[i + 1] = pre.buf[i]
        /\ ObjectUnchanged

\* A snapshot that shows a consumed (stale) non-zero byte and a never-written
\* zero byte next to a buffered byte, with the read cursor inside the block.
WitnessC20 ==
    /\ op = "buffer" /\ _size = 4 /\ _tail = 1 /\ _head = 2
    /\ ret = <<1, 1, 0, 0>> /\ Held = {1}

(***************************************************************************)
(* C21.  The capacity is the size the constructor was given, in every      *)
(* reachable state: no call (write, read, __getitem__, clear, buffer,      *)
(* flush, close, ...) changes _size, the property size reports it, and it  *)
(* stays a power of two (capacity & (capacity - 1) = 0).                   *)
(***************************************************************************)
TheoremC21 ==
    /\ _size = given
    /\ _size = pre.size
    /\ uand(_size, _size - 1) = 0
    /\ op = "size" => ret = given

\* The capacity of a buffer of 4 is reported after bytes were written and read.
WitnessC21 == op = "size" /\ ret = 4 /\ given = 4 /\ _tail > 0 /\ _head # _tail

(***************************************************************************)
(* C22.  Every write and every read returns (no loop runs for ever) after  *)
(* at most two memcpy calls: the first ends at or before the physical end  *)
(* of the block, and a second one is made only when the first ended at the *)
(* physical end, and starts at physical index 0.                           *)
(***************************************************************************)
TheoremC22 ==
    op \in {"write", "read"} =>
        /\ ~hung
        /\ Len(copies) <= 2
        /\ Len(copies) >= 1 => copies[1][1] + copies[1][2] <= _size
        /\ Len(copies) = 2 =>
              /\ copies[1][1] + copies[1][2] = _size
              /\ copies[2][1] = 0

\* A read of three bytes that straddle the wrap point: two copies.
WitnessC22 == op = "read" /\ Len(ret) = 3 /\ Len(copies) = 2 /\ ~hung

(***************************************************************************)
(* C23.  flush() and close() change nothing: the cursors, every byte of    *)
(* the block and the capacity are as before the call, the block is still   *)
(* allocated, and every write and every read gives after the call what it  *)
(* would have given before it.                                             *)
(***************************************************************************)
TheoremC23 ==
    op \in {"flush", "close"} =>
        /\ ObjectUnchanged
        /\ fresh = pre.fresh
        /\ heap = [null |-> FALSE, mallocs |-> 1, frees |-> 0]
        /\ \A data \in DataInputs :
              write(_buf, _head, _tail, _size, data)
                  = write(pre.buf, pre.head, pre.tail, pre.size, data)
        /\ \A amt \in AmtInputs :
              read(_buf, _head, _tail, _size, amt)
                  = read(pre.buf, pre.head, pre.tail, pre.size, amt)

\* close() on a buffer that holds bytes and has room for more.
WitnessC23 ==
    /\ op = "close" /\ NowLen = 2 /\ NowFree = 1
    /\ write(_buf, _head, _tail, _size, <<1>>).ret = 1
    /\ Len(ReadAllNow.ret) = 2

(***************************************************************************)
(* C25.  fileno() returns -1 in every reachable state, never a descriptor  *)
(* number (>= 0), and changes nothing.                                     *)
(***************************************************************************)
TheoremC25 ==
    op = "fileno" =>
        /\ ret = -1
        /\ ~(ret >= 0)
        /\ ObjectUnchanged
        /\ fresh = pre.fresh

\* fileno() on a buffer that holds bytes behind a moved read cursor.
WitnessC25 == op = "fileno" /\ ret = -1 /\ NowLen > 0 /\ _tail > 0

(***************************************************************************)
(* C27.  First in, first out.  accepted and delivered hold the bytes that  *)
(* the writes took (the first ret bytes of each data) and the bytes that   *)
(* the reads returned, both in call order and without their common prefix, *)
(* since construction (clear() starts them anew).  What was read is a      *)
(* prefix of what was accepted (delivered is empty) after every call, and  *)
(* after a read(-1) everything accepted has been read (accepted is empty   *)
(* too): no byte is reordered, duplicated or skipped, however often the    *)
(* cursors have wrapped.                                                   *)
(***************************************************************************)
TheoremC27 ==
    /\ delivered = <<>>
    /\ (op = "read" /\ arg = -1) => accepted = <<>>

\* A read(-1) returns three bytes, not all equal, that straddle the wrap point.
WitnessC27 ==
    /\ op = "read" /\ arg = -1 /\ Len(copies) = 2
    /\ ret = <<0, 1, 1>>
    /\ accepted = <<>> /\ delivered = <<>>

(***************************************************************************)
(* C28.  Byte conservation.  balance is the sum of the values write        *)
(* returned minus the sum of the lengths read returned, since construction *)
(* or the last clear(); it equals __len__() in every reachable state.      *)
(***************************************************************************)
TheoremC28 == balance = NowLen

\* Two bytes are left after a read took one, the cursors having wrapped.
WitnessC28 ==
    /\ op = "read" /\ Len(ret) = 1 /\ balance = 2 /\ NowLen = 2 /\ _head < _tail

(***************************************************************************)
(* C29.  A write never overwrites an unread byte.  The bytes it stores go  *)
(* to the ret positions (old _head + i) mod _size, i < ret, which were     *)
(* all free before the call; no other slot of the block changes, so every  *)
(* slot that held an unread byte is as before, and so is _tail:            *)
(* __getitem__(i) gives for every i < old __len__() the byte it gave       *)
(* before.                                                                 *)
(***************************************************************************)
WrittenSlots == {(pre.head + i) % _size : i \in 0 .. (ret - 1)}

PreUsedSlots == {(pre.tail + k) % pre.size : k \in 0 .. (PreLen - 1)}

TheoremC29 ==
    op = "write" =>
        /\ Touched(copies) = WrittenSlots
        /\ Cardinality(WrittenSlots) = ret
        /\ WrittenSlots \cap PreUsedSlots = {}
        /\ \A p \in WrittenSlots : ~pre.fresh[p]
        /\ \A p \in DOMAIN _buf : p \notin WrittenSlots => _buf[p] = pre.buf[p]
        /\ \A p \in PreUsedSlots : _buf[p] = pre.buf[p]
        /\ _tail = pre.tail
        /\ \A i \in 0 .. (PreLen - 1) :
              /\ __getitem__(_buf, _head, _tail, _size, i).err = "none"
              /\ __getitem__(_buf, _head, _tail, _size, i).ret
                    = __getitem__(pre.buf, pre.head, pre.tail, pre.size, i).ret

\* A write of two bytes across the wrap point into a buffer that holds one
\* unread byte, whose value the write would have changed had it stored there.
WitnessC29 ==
    /\ op = "write" /\ ret = 2 /\ Len(copies) = 2 /\ PreLen = 1
    /\ arg = <<1, 1, 1>> /\ _buf[_tail] = 0

(***************************************************************************)
(* C26.  The object has the flags readable = true, writable = true and     *)
(* seekable = false, the same in every reachable state: reading a flag     *)
(* raises nothing and gives that value.                                    *)
(***************************************************************************)
CounterC26 ==
    op = "getattr" =>
        /\ err = "none"
        /\ ret = (arg \in {"readable", "writable"})

(***************************************************************************)
(* C24.  The storage block is obtained once, by __cinit__, and released    *)
(* once, by __dealloc__.  While the object lives (between the calls, and   *)
(* after write, read and clear) one block has been handed out and none     *)
(* freed; when the object is gone the block has been freed exactly once.   *)
(* When __cinit__ raised ValueError or MemoryError no block was handed out *)
(* and __dealloc__ frees nothing.                                          *)
(***************************************************************************)
TheoremC24 ==
    /\ op = "new" => heap = [null |-> TRUE, mallocs |-> 0, frees |-> 0]
    /\ (op = "cinit" /\ err # "none") => heap = [null |-> TRUE, mallocs |-> 0, frees |-> 0]
    /\ (op \notin {"new", "dealloc"} /\ err \notin {"ValueError", "MemoryError"})
          => heap = [null |-> FALSE, mallocs |-> 1, frees |-> 0]
    /\ (op = "dealloc" /\ err = "none")
          => heap = [null |-> FALSE, mallocs |-> 1, frees |-> 1]
    /\ (op = "dealloc" /\ err \in {"ValueError", "MemoryError"})
          => heap = [null |-> TRUE, mallocs |-> 0, frees |-> 0]

\* A buffer of capacity 4 is destroyed after bytes were written and read.
WitnessC24 ==
    /\ op = "dealloc" /\ err = "none" /\ given = 4 /\ _tail > 0
    /\ heap.mallocs = 1 /\ heap.frees = 1

(***************************************************************************)
(* C30.  On every buffer that the constructor accepted, each memcpy of     *)
(* write and of read touches only the physical indices 0 .. _size - 1 of   *)
(* the block.                                                              *)
(***************************************************************************)
CounterC30 ==
    op \in {"write", "read"} => \A p \in Touched(copies) : p \in 0 .. (_size - 1)

(***************************************************************************)
(* C31.  Refinement.  The abstract buffer is a sequence q of at most       *)
(* capacity - 1 bytes: write appends the longest prefix of data that fits  *)
(* and returns its length, read removes and returns the first              *)
(* min(amount, length) bytes (all of them for a negative amount), peek     *)
(* indexes q, clear empties it.  Under the mapping of an object to its     *)
(* buffered content, every call returns what the abstract operation        *)
(* returns on the content before the call and leaves the content that the  *)
(* abstract operation leaves; the content is also the sequence of the      *)
(* bytes accepted and not yet read in the run so far.  The cursors appear  *)
(* in no result.                                                           *)
(***************************************************************************)
FifoWrite(q, capacity, data) ==
    LET k == Min(Len(data), (capacity - 1) - Len(q))
    IN  [ret |-> k, q |-> q \o SubSeq(data, 1, k)]

FifoRead(q, amount) ==
    LET n == IF amount < 0 THEN Len(q) ELSE Min(amount, Len(q))
    IN  [ret |-> SubSeq(q, 1, n), q |-> SubSeq(q, n + 1, Len(q))]

FifoPeek(q, i) ==
    IF i \in 0 .. (Len(q) - 1)
    THEN [err |-> "none", ret |-> q[i + 1]]
    ELSE [err |-> "IndexError", ret |-> Indeterminate]

TheoremC31 ==
    /\ accepted = NowContents
    /\ Len(NowContents) <= _size - 1
    /\ op = "write" =>
          /\ ret = FifoWrite(PreContents, _size, arg).ret
          /\ NowContents = FifoWrite(PreContents, _size, arg).q
    /\ op = "read" =>
          /\ ret = FifoRead(PreContents, arg).ret
          /\ NowContents = FifoRead(PreContents, arg).q
    /\ op = "getitem" =>
          /\ err = FifoPeek(PreContents, arg).err
          /\ ret = FifoPeek(PreContents, arg).ret
    /\ op = "clear" => NowContents = <<>>
    /\ op = "len" => ret = Len(PreContents)
    /\ op = "freespace" => ret = (_size - 1) - Len(PreContents)
    /\ op \notin {"write", "read", "clear"} => NowContents = PreContents

\* peek(2) on a content of three bytes that lies across the end of the block.
WitnessC31 ==
    /\ op = "getitem" /\ arg = 2 /\ err = "none" /\ ret = 1
    /\ NowContents = <<0, 0, 1>> /\ _head < _tail

(***************************************************************************)
(* C32.  read changes only _tail: _head, the capacity and every byte of    *)
(* the block are as before the call, so the bytes it returned are still in *)
(* the block, at the slots they were read from; a byte of the block        *)
(* changes only in a write or a clear.                                     *)
(***************************************************************************)
TheoremC32 ==
    /\ op = "read" =>
          /\ _head = pre.head /\ _size = pre.size
          /\ _buf = pre.buf
          /\ \A j \in 1 .. Len(ret) : _buf[(pre.tail + j - 1) % _size] = ret[j]
    /\ op \notin {"write", "clear"} => _buf = pre.buf

\* Two bytes of value 1 were read, the buffer is empty and the bytes are stale
\* in the block.
WitnessC32 ==
    /\ op = "read" /\ ret = <<1, 1>> /\ NowLen = 0
    /\ _buf[pre.tail] = 1 /\ _buf[(pre.tail + 1) % _size] = 1

(***************************************************************************)
(* C33.  Placement.  After write(data) has returned n from a state with    *)
(* write cursor w, the block (what buffer returns) holds data[i] at        *)
(* physical index (w + i) mod capacity for every i < n, also across the    *)
(* physical end of the block, and every other byte of the block is as      *)
(* before.                                                                 *)
(***************************************************************************)
BlockNow == [k \in 1 .. _size |-> _buf[k - 1]]

TheoremC33 ==
    op = "write" =>
        /\ \A i \in 0 .. (ret - 1) : BlockNow[((pre.head + i) % _size) + 1] = arg[i + 1]
        /\ \A p \in 0 .. (_size - 1) :
              (\A i \in 0 .. (ret - 1) : p # (pre.head + i) % _size)
                  => BlockNow[p + 1] = pre.buf[p]

\* Three bytes written from the last slot of a block of 4: one goes to index
\* 3, two to indices 0 and 1.
WitnessC33 ==
    /\ op = "write" /\ ret = 3 /\ arg = <<1, 0, 0>>
    /\ copies = <<(<<3, 1>>), (<<0, 2>>)>>
    /\ BlockNow[4] = 1 /\ BlockNow[1] = 0 /\ BlockNow[2] = 0

(***************************************************************************)
(* C34.  peek follows the read cursor.  A read that returned k bytes       *)
(* (read(k) with k <= usedCount() returns k) shifts the indices by k:      *)
(* peek(i) after it is peek(i + k) before it, for every i + k below the    *)
(* usedCount() before; a write shifts nothing, peek(i) stays for every i   *)
(* below the usedCount() before.                                           *)
(***************************************************************************)
PeekNow(i) == __getitem__(_buf, _head, _tail, _size, i)

PeekPre(i) == __getitem__(pre.buf, pre.head, pre.tail, pre.size, i)

TheoremC34 ==
    /\ (op = "read" /\ arg >= 0 /\ arg <= PreLen) => Len(ret) = arg
    /\ op = "read" =>
          \A i \in 0 .. (PreLen - Len(ret) - 1) :
              /\ PeekPre(i + Len(ret)).err = "none"
              /\ PeekNow(i).err = "none"
              /\ PeekNow(i).ret = PeekPre(i + Len(ret)).ret
    /\ op = "write" =>
          \A i \in 0 .. (PreLen - 1) :
              PeekNow(i).err = "none" /\ PeekNow(i).ret = PeekPre(i).ret

\* read(1) from the content 0, 1, 1 lying across the end of the block:
\* peek(0) is now the 1 that was peek(1).
WitnessC34 ==
    /\ op = "read" /\ arg = 1 /\ ret = <<0>> /\ PreContents = <<0, 1, 1>>
    /\ pre.head < pre.tail
    /\ PeekNow(0).ret = 1 /\ PeekPre(1).ret = 1 /\ PeekPre(0).ret = 0

(***************************************************************************)
(* C36.  Capacity 1.  RingBuffer(1) is constructed; in every reachable     *)
(* state of it __len__() = 0 and freespace = 0, every write returns 0 and  *)
(* copies nothing, every read returns the empty string and every           *)
(* __getitem__, that of index 0 too, raises IndexError.                    *)
(***************************************************************************)
TheoremC36 ==
    /\ __cinit__(1, TRUE).err = "none"
    /\ given = 1 =>
          /\ _size = 1
          /\ NowLen = 0 /\ NowFree = 0
          /\ op = "write" => (ret = 0 /\ copies = <<>> /\ _buf = pre.buf)
          /\ op = "read" => (ret = <<>> /\ copies = <<>>)
          /\ op = "getitem" => err = "IndexError"

\* A write of two bytes to the buffer of capacity 1 has returned 0.
WitnessC36 == given = 1 /\ op = "write" /\ arg = <<1, 1>> /\ ret = 0 /\ _buf[0] = 0

(***************************************************************************)
(* C37.  __nonzero__ returns true exactly when _head = _tail, which is     *)
(* exactly when __len__() = 0 (nothing is buffered), false when at least   *)
(* one unread byte is buffered, and changes nothing.                       *)
(***************************************************************************)
TheoremC37 ==
    op = "nonzero" =>
        /\ ret = (_head = _tail)
        /\ ret = (NowLen = 0)
        /\ accepted # <<>> => ret = FALSE
        /\ ObjectUnchanged
        /\ fresh = pre.fresh

\* __nonzero__ is true on a buffer that was filled and emptied again.
WitnessC37 == op = "nonzero" /\ ret = TRUE /\ _head = _tail /\ _head > 0 /\ NowLen = 0

(***************************************************************************)
(* C35.  When PyMem_Malloc finds no memory for a power-of-two size the     *)
(* constructor raises MemoryError, and only then.  No block was handed     *)
(* out, no byte was stored and both cursors are as tp_new left them; the   *)
(* object is never called: the one step that follows is its destruction,   *)
(* which frees nothing.                                                    *)
(***************************************************************************)
AllocationFailed == op \in {"cinit", "dealloc"} /\ err = "MemoryError"

TheoremC35 ==
    /\ [](/\ (op = "cinit" /\ ~arg[2] /\ IsPowerOfTwo(arg[1])) => err = "MemoryError"
          /\ err = "MemoryError" => AllocationFailed
          /\ (op = "cinit" /\ err = "MemoryError") => ~arg[2]
          /\ AllocationFailed =>
                /\ heap = [null |-> TRUE, mallocs |-> 0, frees |-> 0]
                /\ _buf = <<>> /\ fresh = <<>>
                /\ _head = 0 /\ _tail = 0
                /\ copies = <<>>)
    /\ [][(op = "cinit" /\ err = "MemoryError") => op' = "dealloc"]_vars

\* RingBuffer(4) with no memory to be had has raised MemoryError.
WitnessC35 ==
    /\ op = "cinit" /\ arg = <<4, FALSE>> /\ err = "MemoryError"
    /\ heap.null /\ _buf = <<>>

(***************************************************************************)
(* C38.  For every capacity that is a positive power of two and all        *)
(* cursors head, tail below it, _count_to_end is the smaller of the number *)
(* of buffered bytes and capacity - tail, and _space_to_end the smaller of *)
(* the number of free bytes and capacity - head: the length of the run up  *)
(* to the physical end of the block, never more than what is buffered or   *)
(* free.                                                                   *)
(***************************************************************************)
UsedBytes == (_head - _tail) % _size

FreeBytes == (_size - 1) - UsedBytes

TheoremC38 ==
    /\ op = "_count_to_end" =>
          /\ ret = Min(UsedBytes, _size - _tail)
          /\ ret <= UsedBytes /\ _tail + ret <= _size
    /\ op = "_space_to_end" =>
          /\ ret = Min(FreeBytes, _size - _head)
          /\ ret <= FreeBytes /\ _head + ret <= _size

\* Capacity 16: nine bytes are buffered from slot 10 on, six of them up to the
\* end of the block.
WitnessC38 ==
    /\ op = "_count_to_end" /\ arg = <<3, 10, 16>> /\ ret = 6 /\ UsedBytes = 9
====
